---- MODULE Spec2Model ----
(***************************************************************************)
(* Model of the upload app of findcarhome (apps/upload): the UploadedFile  *)
(* and FileUploadLog tables, the blob storage behind the FileField and the *)
(* ImageField, and the request handlers of UploadViewSet.                  *)
(*                                                                         *)
(* Granularity.  The project settings under src/ do not set                *)
(* ATOMIC_REQUESTS, so every ORM statement commits on its own (Django's    *)
(* autocommit) except inside UploadViewSet.create, which is decorated with *)
(* transaction.atomic.  A handler is therefore modelled as one action per  *)
(* committed database statement, with the handler's local variables kept   *)
(* in its request slot between the statements; create is a single action   *)
(* because its database writes become visible together at commit.  Blob    *)
(* storage is not transactional: a blob written before a rollback stays.   *)
(*                                                                         *)
(* Failures of the storage or of the database are inputs of the actions    *)
(* (the parameter "fault"): the environment decides whether a write fails. *)
(***************************************************************************)
EXTENDS Integers, Sequences, FiniteSets, TLC

VARIABLES
    files,          \* table UploadedFile: id -> row
    blobs,          \* names of the objects present in the file storage
    log,            \* table FileUploadLog, in insertion order
    nextId,         \* next AutoField value of UploadedFile
    nextBlob,       \* next fresh (uuid4) storage name
    now,            \* clock read by auto_now_add
    maxUploadSize,  \* settings.MAX_UPLOAD_SIZE
    req,            \* requests in flight: slot -> locals of the handler
    resp,           \* the response most recently returned to a client
    stream          \* the file object handed to the image helpers

vars == <<files, blobs, log, nextId, nextBlob, now, maxUploadSize, req, resp, stream>>

store == <<files, blobs, log>>

---------------------------------------------------------------------------
(* Bounds of the exploration *)

MaxFiles == 2       \* rows ever inserted into UploadedFile
MaxBatch == 2       \* files in one batch request

MaxLog == MaxFiles + 1      \* rows ever inserted into FileUploadLog

MaxBlobs == 2 * MaxFiles    \* names ever given out by the storage

MaxStream == 4      \* length of a stream handed to the image helpers

MaxAlt == 1         \* alternative names the storage can give to one file name

\* Two clients at a time: a slot holds the locals of a handler in progress
Slots == {"r1", "r2"}

---------------------------------------------------------------------------
(* Values *)

MiB == 1024 * 1024

DefaultMaxSize == 5 * 1024 * 1024

MaxListingIdLen == 128

MaxFileNameLen == 100

\* The length of 'uploads/%Y/%m/%d/' once the date is filled in
UploadDirLen == 19

\* The length of str(uuid.uuid4())
UuidLen == 36

\* What an alternative name adds to a file root: "_" and 7 random characters
AltSuffixLen == 8

\* A name in the storage (all requests fall on one day, so that upload_to
\* gives one directory): the n-th uuid4 name made by create (root ""), the
\* file name of a client as get_valid_name leaves it (n = 0), or the n-th
\* draw of an alternative name, whose root shows by "*" where the 7 random
\* characters stand
Name(root, n) == [root |-> root, n |-> n]

Uuid(n) == Name("", n)

NoBlob == Name("", 0)   \* an empty FieldFile (thumbnail is NULL)

NoDim == 0          \* width / height is NULL

NoPk == 0           \* no row is named

LISTING_TYPES == {"house", "car"}

FILE_TYPES == {"image", "video", "audio", "document"}

Users == {"u1", "u2"}

LongId ==
    "LLLLLLLLLLLLLLLLLLLLLLLLLLLLLLLLLLLLLLLLLLLLLLLLLLLLLLLLLLLLLLLLLLLLLLLLLLLLLLLLLLLLLLLLLLLLLLLLLLLLLLLLLLLLLLLLLLLLLLLLLLLLLLLLLLLLLLLLL"

\* request.FILES.get('file') of a request without a file part
NoFile == [name |-> "", content_type |-> "", size |-> 0, image |-> "none"]

\* An uploaded file part: its client file name, its Content-Type header, its
\* length and what PIL makes of its bytes: "ok" decodes, "truncated" has a
\* readable header but undecodable pixel data, "none" is not an image.
Upload(name, ct, size, image) ==
    [name |-> name, content_type |-> ct, size |-> size, image |-> image]

\* request.data.get(key) of a request without that form field
None == "<None>"

Truthy(x) == x # "" /\ x # None

FileTruthy(f) == f.name # ""

---------------------------------------------------------------------------
(* Pure helpers of the view set *)

\* str.lower on one character of the ASCII range
LowerChar(c) ==
    CASE c = "A" -> "a" [] c = "B" -> "b" [] c = "C" -> "c" [] c = "D" -> "d"
      [] c = "E" -> "e" [] c = "F" -> "f" [] c = "G" -> "g" [] c = "H" -> "h"
      [] c = "I" -> "i" [] c = "J" -> "j" [] c = "K" -> "k" [] c = "L" -> "l"
      [] c = "M" -> "m" [] c = "N" -> "n" [] c = "O" -> "o" [] c = "P" -> "p"
      [] c = "Q" -> "q" [] c = "R" -> "r" [] c = "S" -> "s" [] c = "T" -> "t"
      [] c = "U" -> "u" [] c = "V" -> "v" [] c = "W" -> "w" [] c = "X" -> "x"
      [] c = "Y" -> "y" [] c = "Z" -> "z"
      [] OTHER -> c

RECURSIVE Lower(_)
Lower(s) ==
    IF Len(s) = 0 THEN ""
    ELSE LowerChar(SubSeq(s, 1, 1)) \o Lower(SubSeq(s, 2, Len(s)))

\* str(request.data.get('is_primary', 'false')).lower() == 'true'
ParseIsPrimary(raw) == Lower(raw) = "true"

\* The texts on which the trimming and the cleaning of names are defined:
\* those of the printable ASCII characters (the backquote left out, which a
\* string of this module cannot hold) and the blanks \t \n \f \r.  What
\* str.strip and get_valid_filename do to any other character (they trim
\* more blanks than these, and keep the letters of every script) is left
\* undefined, and the requests that reach them carry only such texts
TextChars ==
    LET Ascii == " !\"#$%&'()*+,-./0123456789:;<=>?@ABCDEFGHIJKLMNOPQRSTUVWXYZ[\\]^_abcdefghijklmnopqrstuvwxyz{|}~\t\n\f\r"
    IN  {SubSeq(Ascii, j, j) : j \in 1..Len(Ascii)}

IsText(s) == \A i \in 1..Len(s) : SubSeq(s, i, i) \in TextChars

\* str.strip of a text: the blanks at both ends are dropped
RECURSIVE Strip(_)
Strip(s) ==
    LET IsSpace(c) == c \in {" ", "\t", "\n", "\r", "\f"}
    IN  CASE IsText(s) ->
             IF Len(s) > 0 /\ IsSpace(SubSeq(s, 1, 1)) THEN Strip(SubSeq(s, 2, Len(s)))
             ELSE IF Len(s) > 0 /\ IsSpace(SubSeq(s, Len(s), Len(s)))
                 THEN Strip(SubSeq(s, 1, Len(s) - 1))
             ELSE s

\* os.path.splitext of a file name: <<root, ext>>, the extension running
\* from the last dot, unless nothing but dots comes before it
splitext(name) ==
    LET dots == {i \in 1..Len(name) : SubSeq(name, i, i) = "."}
        last == IF dots = {} THEN 0 ELSE CHOOSE i \in dots : \A j \in dots : j <= i
    IN  IF \E i \in 1..(last - 1) : i \notin dots
        THEN <<SubSeq(name, 1, last - 1), SubSeq(name, last, Len(name))>>
        ELSE <<name, "">>

\* Of a text, blanks become underscores and the characters that are no
\* letter, digit, underscore, dash or dot are dropped (character by
\* character; the text is halved to keep the evaluation shallow)
ValidChars ==
    LET Word == "abcdefghijklmnopqrstuvwxyzABCDEFGHIJKLMNOPQRSTUVWXYZ0123456789_-."
    IN  {SubSeq(Word, j, j) : j \in 1..Len(Word)}

RECURSIVE Sanitize(_)
Sanitize(s) ==
    LET half == Len(s) \div 2
    IN  IF Len(s) = 0 THEN ""
        ELSE IF Len(s) = 1
            THEN CASE s = " " -> "_"
                   [] s \in ValidChars -> s
                   [] s \in TextChars \ (ValidChars \cup {" "}) -> ""
        ELSE Sanitize(SubSeq(s, 1, half)) \o Sanitize(SubSeq(s, half + 1, Len(s)))

\* Storage.get_valid_name (get_valid_filename): strip, blanks to
\* underscores, every character that is no letter, digit, underscore, dash
\* or dot dropped
get_valid_name(name) == Sanitize(Strip(name))

\* pathlib's suffixes of a file name, joined (the file_ext of
\* get_available_name): what follows the first dot behind the leading dots,
\* with that dot; nothing when the name ends with a dot
file_ext(name) ==
    LET inner == {i \in 1..Len(name) : /\ SubSeq(name, i, i) = "."
                                       /\ \E j \in 1..(i - 1) : SubSeq(name, j, j) # "."}
        first == CHOOSE i \in inner : \A j \in inner : i <= j
    IN  IF inner = {} \/ SubSeq(name, Len(name), Len(name)) = "." THEN ""
        ELSE SubSeq(name, first, Len(name))

\* Storage.get_available_name raises SuspiciousFileOperation: the name is
\* taken or its path is longer than the max_length of the FileField, and
\* the alternative name (root, "_", 7 random characters, extension) is too
\* long by no less than the length of the file root
NameRefused(taken, rootLen, extLen) ==
    /\ taken \/ UploadDirLen + rootLen + extLen > MaxFileNameLen
    /\ UploadDirLen + rootLen + AltSuffixLen + extLen - MaxFileNameLen >= rootLen

StartsWith(s, p) == Len(s) >= Len(p) /\ SubSeq(s, 1, Len(p)) = p

\* A string without a known prefix gets the default of the model field
detect_file_type_default_image(mime_type) ==
    IF StartsWith(mime_type, "image/") THEN "image"
    ELSE IF StartsWith(mime_type, "video/") THEN "video"
    ELSE IF StartsWith(mime_type, "audio/") THEN "audio"
    ELSE "image"

detect_file_type(mime_type) ==
    IF StartsWith(mime_type, "image/") THEN "image"
    ELSE IF StartsWith(mime_type, "video/") THEN "video"
    ELSE IF StartsWith(mime_type, "audio/") THEN "audio"
    ELSE "document"

\* file_obj.content_type or 'application/octet-stream'
MimeOf(f) == IF f.content_type = "" THEN "application/octet-stream" ELSE f.content_type

\* settings.MAX_UPLOAD_SIZE.get(file_type, 5 * 1024 * 1024)
MaxSizeFor(cfg, file_type) ==
    IF file_type \in DOMAIN cfg THEN cfg[file_type] ELSE DefaultMaxSize

\* if file_obj.size > max_size
TooLargeInclusive(size, max_size) == size >= max_size

TooLarge(size, max_size) == size > max_size

\* A size is reported whatever the bytes are
get_image_dimensions_any(f) == <<2000, 1500>>

\* Image.open succeeds on a readable header and img.size is returned (every
\* readable image of the exploration is 2000 x 1500); any exception gives
\* (None, None)
get_image_dimensions(f) ==
    IF f.image \in {"ok", "truncated"} THEN <<2000, 1500>> ELSE <<NoDim, NoDim>>

\* TRUE when a thumbnail stream is returned, FALSE when the result is None
generate_thumbnail(f) == f.image = "ok"

---------------------------------------------------------------------------
(* Requests and responses *)

\* request.data of a partial update that names no field
NoPatch == [listing_type |-> None, listing_id |-> None, is_primary |-> None,
            file |-> NoFile]

Idle == [op |-> "idle", pc |-> "idle", user |-> "", pk |-> NoPk, inst |-> <<>>,
         patch |-> NoPatch, items |-> <<>>, ltype |-> "", lid |-> "", index |-> 0,
         results |-> <<>>, errors |-> <<>>]

Response(op, user, pk, status, error) ==
    [op |-> op, user |-> user, pk |-> pk, status |-> status, error |-> error,
     success |-> 0, failed |-> 0, results |-> <<>>, errors |-> <<>>]

\* Every row, whoever owns it
get_queryset_all(tbl, user) == DOMAIN tbl

\* get_queryset: only the caller's rows
get_queryset(tbl, user) == {i \in DOMAIN tbl : tbl[i].user_uid = user}

\* get_object: the row pk of get_queryset, or Http404
Found(tbl, user, pk) == pk \in get_queryset(tbl, user)

Without(tbl, pk) == [i \in DOMAIN tbl \ {pk} |-> tbl[i]]

LogEntry(user, action, file_id, file_name, file_size) ==
    [user_uid |-> user, action |-> action, file_id |-> file_id,
     file_name |-> file_name, file_size |-> file_size]

---------------------------------------------------------------------------
(* UploadViewSet.create as a function of the committed state and the       *)
(* request: the response and the state the call leaves behind.  An         *)
(* exception leaves transaction.atomic by rolling back the rows written by *)
(* the call; the objects already written to the storage stay.              *)

CreateFaults == {"none", "blob_write", "insert", "thumb_write", "thumb_save", "log"}

Outcome(status, error, f, b, l, nid, nb, t, pk, fname) ==
    [status |-> status, error |-> error, files |-> f, blobs |-> b, log |-> l,
     nextId |-> nid, nextBlob |-> nb, now |-> t, pk |-> pk, fname |-> fname]

OrigName(f) == [orig |-> f.name, uuid |-> NoBlob]

\* The storage refuses the name create gives the file, the uuid4 followed
\* by the lower-cased extension of the client's file name, as
\* get_valid_name leaves it (the extension is no longer than the file name,
\* and get_valid_name only shortens it: a name that fits as it is fits
\* cleaned)
StorageRefuses(file_obj) ==
    LET ext == Lower(splitext(file_obj.name)[2])
    IN  /\ NameRefused(FALSE, UuidLen, Len(file_obj.name))
        /\ NameRefused(FALSE, UuidLen, Len(ext))
        /\ NameRefused(FALSE, UuidLen, Len(get_valid_name("u" \o ext)) - 1)

create(user_uid, listing_type, listing_id, raw_primary, file_obj, fault) ==
    LET is_primary == ParseIsPrimary(raw_primary)
        mime_type == MimeOf(file_obj)
        file_type == detect_file_type(mime_type)
        max_size == MaxSizeFor(maxUploadSize, file_type)
        dims == IF file_type = "image" THEN get_image_dimensions(file_obj)
                ELSE <<NoDim, NoDim>>
        fileBlob == Uuid(nextBlob)
        thumbBlob == Uuid(nextBlob + 1)
        renamed == [orig |-> file_obj.name, uuid |-> fileBlob]
        hasThumb == file_type = "image" /\ generate_thumbnail(file_obj)
        row == [id |-> nextId, user_uid |-> user_uid,
                listing_type |-> listing_type, listing_id |-> listing_id,
                file_type |-> file_type, file |-> fileBlob,
                thumbnail |-> IF hasThumb THEN thumbBlob ELSE NoBlob,
                is_primary |-> is_primary, file_size |-> file_obj.size,
                mime_type |-> mime_type, width |-> dims[1], height |-> dims[2],
                uploaded_at |-> now]
        entry == LogEntry(user_uid, "upload", nextId, fileBlob, file_obj.size)
        Unchanged(status, error, fname) ==
            Outcome(status, error, files, blobs, log, nextId, nextBlob, now, NoPk, fname)
        RolledBack(error, written, nb) ==
            Outcome(500, error, files, blobs \cup written, log, nextId, nb, now, NoPk, renamed)
    IN  IF ~(FileTruthy(file_obj) /\ Truthy(listing_type) /\ Truthy(listing_id))
            THEN Unchanged(400, "missing_field", OrigName(file_obj))
        ELSE IF TooLarge(file_obj.size, max_size)
            THEN Unchanged(400, "file_too_large", OrigName(file_obj))
        ELSE IF StorageRefuses(file_obj)
            THEN Unchanged(400, "suspicious_file_name", renamed)
        ELSE IF fault = "blob_write"
            THEN Unchanged(500, "blob_write_failed", renamed)
        ELSE IF fault = "insert"
            THEN RolledBack("transaction_failed", {fileBlob}, nextBlob + 1)
        ELSE IF hasThumb /\ fault = "thumb_write"
            THEN RolledBack("blob_write_failed", {fileBlob}, nextBlob + 1)
        ELSE IF hasThumb /\ fault = "thumb_save"
            THEN RolledBack("transaction_failed", {fileBlob, thumbBlob}, nextBlob + 2)
        ELSE IF fault = "log"
            THEN RolledBack("transaction_failed",
                            {fileBlob} \cup (IF hasThumb THEN {thumbBlob} ELSE {}),
                            IF hasThumb THEN nextBlob + 2 ELSE nextBlob + 1)
        ELSE Outcome(201, "", files @@ (nextId :> row),
                     blobs \cup {fileBlob} \cup (IF hasThumb THEN {thumbBlob} ELSE {}),
                     Append(log, entry), nextId + 1,
                     IF hasThumb THEN nextBlob + 2 ELSE nextBlob + 1,
                     now + 1, nextId, renamed)

\* The faults that can occur on the path a request takes
FaultApplies(listing_type, listing_id, file_obj, fault) ==
    LET file_type == detect_file_type(MimeOf(file_obj))
        valid == /\ FileTruthy(file_obj) /\ Truthy(listing_type) /\ Truthy(listing_id)
                 /\ ~TooLarge(file_obj.size, MaxSizeFor(maxUploadSize, file_type))
                 /\ ~StorageRefuses(file_obj)
        hasThumb == file_type = "image" /\ generate_thumbnail(file_obj)
    IN  \/ fault = "none"
        \/ fault \in {"blob_write", "insert", "log"} /\ valid
        \/ fault \in {"thumb_write", "thumb_save"} /\ valid /\ hasThumb

\* Room left in the explored part of the id, name and log spaces
Room == nextId <= MaxFiles /\ nextBlob + 1 <= MaxBlobs /\ Len(log) < MaxLog

\* The log row is not part of what the call commits
Commit_without_log(out) ==
    /\ files' = out.files
    /\ blobs' = out.blobs
    /\ log' = log
    /\ nextId' = out.nextId
    /\ nextBlob' = out.nextBlob
    /\ now' = out.now

Commit(out) ==
    /\ files' = out.files
    /\ blobs' = out.blobs
    /\ log' = out.log
    /\ nextId' = out.nextId
    /\ nextBlob' = out.nextBlob
    /\ now' = out.now

\* POST /upload/ : one call of create
Create(user, listing_type, listing_id, raw_primary, file_obj, fault) ==
    /\ FaultApplies(listing_type, listing_id, file_obj, fault)
    /\ \E out \in {create(user, listing_type, listing_id, raw_primary, file_obj, fault)} :
        /\ out.status = 400 \/ Room
        /\ Commit(out)
        /\ resp' = Response("create", user, out.pk, out.status, out.error)
    /\ UNCHANGED <<maxUploadSize, stream, req>>

---------------------------------------------------------------------------
(* UploadViewSet.set_primary: get_object, the queryset update that clears  *)
(* the listing's flags, and the save of the instance that get_object read  *)

SetPrimaryGet(r, user, pk) ==
    /\ req[r].op = "idle"
    /\ IF Found(files, user, pk)
          THEN /\ req' = [req EXCEPT ![r] = [Idle EXCEPT !.op = "set_primary",
                              !.pc = "clear", !.user = user, !.pk = pk,
                              !.inst = files[pk]]]
               /\ UNCHANGED resp
          ELSE /\ resp' = Response("set_primary", user, pk, 404, "not_found")
               /\ UNCHANGED req
    /\ UNCHANGED <<files, blobs, log, nextId, nextBlob, now, maxUploadSize, stream>>

\* filter(listing_type=, listing_id=, user_uid=).update(is_primary=False)
ClearPrimary(tbl, listing_type, listing_id, user) ==
    [i \in DOMAIN tbl |->
        IF /\ tbl[i].listing_type = listing_type
           /\ tbl[i].listing_id = listing_id
           /\ tbl[i].user_uid = user
        THEN [tbl[i] EXCEPT !.is_primary = FALSE]
        ELSE tbl[i]]

\* The first statement of UploadedFile.save for an instance and the file of
\* the request, if any: the storage is asked for file.size when file_size
\* is 0 and the file is a stored one; a new file is written to the storage
\* by the FileField; else the UPDATE comes first
SaveEntry(inst, patch) ==
    IF inst.file_size = 0 /\ patch.file = NoFile THEN "size"
    ELSE IF patch.file # NoFile THEN "write"
    ELSE "update"

\* The clearing update, then uploaded_file.is_primary = True on the instance
SetPrimaryClear(r) ==
    /\ req[r].op = "set_primary" /\ req[r].pc = "clear"
    /\ files' = ClearPrimary(files, req[r].inst.listing_type,
                             req[r].inst.listing_id, req[r].user)
    /\ req' = [req EXCEPT ![r].pc = SaveEntry(req[r].inst, NoPatch),
                          ![r].inst = [req[r].inst EXCEPT !.is_primary = TRUE]]
    /\ UNCHANGED <<blobs, log, nextId, nextBlob, now, maxUploadSize, stream, resp>>

---------------------------------------------------------------------------
(* UploadedFile.save of the instance a handler holds (set_primary, update), *)
(* statement by statement: nothing wraps them in a transaction             *)

SaveOps == {"set_primary", "update"}

\* self.file_size = self.file.size, read from the storage: an exception
\* when the object is gone (the objects of rows with file_size 0 are empty)
SaveFileSize(r) ==
    /\ req[r].op \in SaveOps /\ req[r].pc = "size"
    /\ IF req[r].inst.file \notin blobs
          THEN /\ resp' = Response(req[r].op, req[r].user, req[r].pk, 500, "storage_error")
               /\ req' = [req EXCEPT ![r] = Idle]
          ELSE /\ req' = [req EXCEPT ![r].pc = "update"]
               /\ UNCHANGED resp
    /\ UNCHANGED <<files, blobs, log, nextId, nextBlob, now, maxUploadSize, stream>>

\* Storage.get_available_name, when it does not raise: the name itself when
\* no object has it and its path fits the max_length of the FileField, else
\* an alternative name that no object has, of the file root cut by what the
\* alternative name is too long ("*" stands for the 7 random characters, of
\* which the exploration has MaxAlt draws)
get_available_name(store_, name) ==
    LET ext == file_ext(name)
        root == SubSeq(name, 1, Len(name) - Len(ext))
        truncation == UploadDirLen + Len(root) + AltSuffixLen + Len(ext) - MaxFileNameLen
        file_root == IF truncation > 0 THEN SubSeq(root, 1, Len(root) - truncation) ELSE root
    IN  IF Name(name, 0) \notin store_ /\ UploadDirLen + Len(name) <= MaxFileNameLen
        THEN {Name(name, 0)}
        ELSE {Name(file_root \o "_*" \o ext, k) : k \in 1..MaxAlt} \ store_

\* FileField.pre_save: the new file of the request is written to the
\* storage under the available name of its file name; a file name of which
\* nothing but dots is left, or one that cannot be cut to the max_length, is
\* refused (SuspiciousFileOperation).  The step is explored while one of the
\* MaxAlt draws of an alternative name is free
SaveWrite(r, fault) ==
    LET name == get_valid_name(req[r].patch.file.name)
        ext == file_ext(name)
        names == get_available_name(blobs, name)
    IN  /\ req[r].op \in SaveOps /\ req[r].pc = "write"
        /\ fault \in {"none", "blob_write"}
        /\ IF \/ name \in {"", ".", ".."}
              \/ NameRefused(Name(name, 0) \in blobs, Len(name) - Len(ext), Len(ext))
              THEN /\ fault = "none"
                   /\ resp' = Response(req[r].op, req[r].user, req[r].pk, 400, "suspicious_file_name")
                   /\ req' = [req EXCEPT ![r] = Idle]
                   /\ UNCHANGED blobs
              ELSE /\ names # {}
                   /\ IF fault = "blob_write"
                         THEN /\ resp' = Response(req[r].op, req[r].user, req[r].pk, 500, "blob_write_failed")
                              /\ req' = [req EXCEPT ![r] = Idle]
                              /\ UNCHANGED blobs
                         ELSE \E stored \in names :
                              /\ blobs' = blobs \cup {stored}
                              /\ req' = [req EXCEPT ![r].pc = "update", ![r].inst.file = stored]
                              /\ UNCHANGED resp
        /\ UNCHANGED <<files, log, nextId, nextBlob, now, maxUploadSize, stream>>

\* UPDATE of every column where id = pk; when it matches no row the INSERT
\* follows as a statement of its own
SaveUpdate(r, fault) ==
    LET inst == req[r].inst
    IN  /\ req[r].op \in SaveOps /\ req[r].pc = "update"
        /\ fault \in {"none", "row"}
        /\ IF fault = "row"
              THEN /\ resp' = Response(req[r].op, req[r].user, req[r].pk, 500, "transaction_failed")
                   /\ req' = [req EXCEPT ![r] = Idle]
                   /\ UNCHANGED files
           ELSE IF inst.id \in DOMAIN files
              THEN /\ files' = [files EXCEPT ![inst.id] = inst]
                   /\ resp' = Response(req[r].op, req[r].user, req[r].pk, 200, "")
                   /\ req' = [req EXCEPT ![r] = Idle]
              ELSE /\ req' = [req EXCEPT ![r].pc = "insert"]
                   /\ UNCHANGED <<files, resp>>
        /\ UNCHANGED <<blobs, log, nextId, nextBlob, now, maxUploadSize, stream>>

\* INSERT of the instance under its id (auto_now_add sets uploaded_at); an
\* IntegrityError when a row of that id is there again
SaveInsert(r) ==
    LET inst == req[r].inst
    IN  /\ req[r].op \in SaveOps /\ req[r].pc = "insert"
        /\ IF inst.id \in DOMAIN files
              THEN /\ resp' = Response(req[r].op, req[r].user, req[r].pk, 500, "transaction_failed")
                   /\ UNCHANGED <<files, now>>
              ELSE /\ files' = files @@ (inst.id :> [inst EXCEPT !.uploaded_at = now])
                   /\ now' = now + 1
                   /\ resp' = Response(req[r].op, req[r].user, req[r].pk, 200, "")
        /\ req' = [req EXCEPT ![r] = Idle]
        /\ UNCHANGED <<blobs, log, nextId, nextBlob, maxUploadSize, stream>>

---------------------------------------------------------------------------
(* UploadViewSet.destroy: get_object, the log row, then                    *)
(* DestroyModelMixin.destroy: get_object again and UploadedFile.delete,    *)
(* which removes the file object, the thumbnail object and the row         *)

DestroyGet(r, user, pk) ==
    /\ req[r].op = "idle"
    /\ IF Found(files, user, pk)
          THEN /\ req' = [req EXCEPT ![r] = [Idle EXCEPT !.op = "destroy",
                              !.pc = "log", !.user = user, !.pk = pk,
                              !.inst = files[pk]]]
               /\ UNCHANGED resp
          ELSE /\ resp' = Response("destroy", user, pk, 404, "not_found")
               /\ UNCHANGED req
    /\ UNCHANGED <<files, blobs, log, nextId, nextBlob, now, maxUploadSize, stream>>

\* The delete is recorded by overwriting the entries of the row
DestroyLog_in_place(r, fault) ==
    LET inst == req[r].inst
        entry == LogEntry(req[r].user, "delete", inst.id, inst.file, inst.file_size)
        own == {i \in DOMAIN log : log[i].file_id = inst.id}
    IN  /\ req[r].op = "destroy" /\ req[r].pc = "log"
        /\ fault \in {"none", "log"}
        /\ IF fault = "log"
              THEN /\ resp' = Response("destroy", req[r].user, req[r].pk, 500, "transaction_failed")
                   /\ req' = [req EXCEPT ![r] = Idle]
                   /\ UNCHANGED log
              ELSE /\ log' = IF own = {} THEN Append(log, entry)
                             ELSE [i \in DOMAIN log |-> IF i \in own THEN entry ELSE log[i]]
                   /\ req' = [req EXCEPT ![r].pc = "perform"]
                   /\ UNCHANGED resp
        /\ UNCHANGED <<files, blobs, nextId, nextBlob, now, maxUploadSize, stream>>

DestroyLog(r, fault) ==
    LET inst == req[r].inst
    IN  /\ req[r].op = "destroy" /\ req[r].pc = "log"
        /\ fault \in {"none", "log"}
        /\ IF fault = "log"
              THEN /\ resp' = Response("destroy", req[r].user, req[r].pk, 500, "transaction_failed")
                   /\ req' = [req EXCEPT ![r] = Idle]
                   /\ UNCHANGED log
              ELSE /\ Len(log) < MaxLog
                   /\ log' = Append(log, LogEntry(req[r].user, "delete", inst.id,
                                                  inst.file, inst.file_size))
                   /\ req' = [req EXCEPT ![r].pc = "perform"]
                   /\ UNCHANGED resp
        /\ UNCHANGED <<files, blobs, nextId, nextBlob, now, maxUploadSize, stream>>

\* DestroyModelMixin.destroy: get_object once more
DestroySelect(r) ==
    /\ req[r].op = "destroy" /\ req[r].pc = "perform"
    /\ IF Found(files, req[r].user, req[r].pk)
          THEN /\ req' = [req EXCEPT ![r].pc = "file", ![r].inst = files[req[r].pk]]
               /\ UNCHANGED resp
          ELSE /\ resp' = Response("destroy", req[r].user, req[r].pk, 404, "not_found")
               /\ req' = [req EXCEPT ![r] = Idle]
    /\ UNCHANGED <<files, blobs, log, nextId, nextBlob, now, maxUploadSize, stream>>

\* UploadedFile.delete: self.file.delete(save=False); the storage ignores
\* an object that is not there
DestroyFile(r, fault) ==
    LET inst == req[r].inst
    IN  /\ req[r].op = "destroy" /\ req[r].pc = "file"
        /\ fault \in {"none", "file_blob"}
        /\ IF fault = "file_blob"
              THEN /\ resp' = Response("destroy", req[r].user, req[r].pk, 500, "blob_delete_failed")
                   /\ req' = [req EXCEPT ![r] = Idle]
                   /\ UNCHANGED blobs
              ELSE /\ blobs' = blobs \ {inst.file}
                   /\ req' = [req EXCEPT ![r].pc =
                                 IF inst.thumbnail # NoBlob THEN "thumb" ELSE "row"]
                   /\ UNCHANGED resp
        /\ UNCHANGED <<files, log, nextId, nextBlob, now, maxUploadSize, stream>>

\* The thumbnail object is left in the storage
DestroyThumbnail_keep(r, fault) ==
    /\ req[r].op = "destroy" /\ req[r].pc = "thumb"
    /\ fault \in {"none", "thumb_blob"}
    /\ IF fault = "thumb_blob"
          THEN /\ resp' = Response("destroy", req[r].user, req[r].pk, 500, "blob_delete_failed")
               /\ req' = [req EXCEPT ![r] = Idle]
          ELSE /\ req' = [req EXCEPT ![r].pc = "row"]
               /\ UNCHANGED resp
    /\ UNCHANGED <<files, blobs, log, nextId, nextBlob, now, maxUploadSize, stream>>

\* UploadedFile.delete: self.thumbnail.delete(save=False) when the instance
\* has a thumbnail
DestroyThumbnail(r, fault) ==
    /\ req[r].op = "destroy" /\ req[r].pc = "thumb"
    /\ fault \in {"none", "thumb_blob"}
    /\ IF fault = "thumb_blob"
          THEN /\ resp' = Response("destroy", req[r].user, req[r].pk, 500, "blob_delete_failed")
               /\ req' = [req EXCEPT ![r] = Idle]
               /\ UNCHANGED blobs
          ELSE /\ blobs' = blobs \ {req[r].inst.thumbnail}
               /\ req' = [req EXCEPT ![r].pc = "row"]
               /\ UNCHANGED resp
    /\ UNCHANGED <<files, log, nextId, nextBlob, now, maxUploadSize, stream>>

\* super().delete(): DELETE where id = pk; a DELETE of no row is no error
DestroyRow(r, fault) ==
    /\ req[r].op = "destroy" /\ req[r].pc = "row"
    /\ fault \in {"none", "row"}
    /\ IF fault = "row"
          THEN /\ resp' = Response("destroy", req[r].user, req[r].pk, 500, "transaction_failed")
               /\ UNCHANGED files
          ELSE /\ files' = IF req[r].pk \in DOMAIN files THEN Without(files, req[r].pk)
                           ELSE files
               /\ resp' = Response("destroy", req[r].user, req[r].pk, 204, "")
    /\ req' = [req EXCEPT ![r] = Idle]
    /\ UNCHANGED <<blobs, log, nextId, nextBlob, now, maxUploadSize, stream>>

---------------------------------------------------------------------------
(* UploadViewSet.batch_upload: one call of create per file, in submission  *)
(* order; every call is its own transaction.atomic block                   *)

BatchStart(r, user, items, listing_type, listing_id) ==
    /\ req[r].op = "idle"
    /\ IF Len(items) = 0
          THEN /\ resp' = Response("batch_upload", user, NoPk, 400, "no_files")
               /\ UNCHANGED req
          ELSE /\ req' = [req EXCEPT ![r] = [Idle EXCEPT !.op = "batch_upload",
                              !.pc = "item", !.user = user, !.items = items,
                              !.ltype = listing_type, !.lid = listing_id]]
               /\ UNCHANGED resp
    /\ UNCHANGED <<files, blobs, log, nextId, nextBlob, now, maxUploadSize, stream>>

\* Response({'success': len(results), 'failed': len(errors), ...})
BatchResponse(user, results, errors) ==
    [Response("batch_upload", user, NoPk, 200, "") EXCEPT
        !.success = Len(results), !.failed = Len(errors),
        !.results = results, !.errors = errors]

\* A failed call is not recorded at all
CollectDropFailed(results, errors, out) ==
    [results |-> IF out.status = 201 THEN Append(results, out.pk) ELSE results,
     errors |-> errors]

\* results.append(response.data) when the status is 201, else
\* errors.append(...); an exception of create is appended to errors too
Collect(results, errors, out) ==
    IF out.status = 201
    THEN [results |-> Append(results, out.pk), errors |-> errors]
    ELSE [results |-> results,
          errors |-> Append(errors, [file |-> out.fname, error |-> out.error])]

\* The flag goes to the first file that is stored
BatchItem_first_stored(r, fault) ==
    LET index == req[r].index
        file_obj == req[r].items[index + 1]
        raw == Lower(IF Len(req[r].results) = 0 THEN "True" ELSE "False")
    IN  /\ req[r].op = "batch_upload" /\ req[r].pc = "item"
        /\ FaultApplies(req[r].ltype, req[r].lid, file_obj, fault)
        /\ \E out \in {create(req[r].user, req[r].ltype, req[r].lid, raw, file_obj, fault)} :
           \E lists \in {Collect(req[r].results, req[r].errors, out)} :
           /\ out.status = 400 \/ Room
           /\ Commit(out)
           /\ IF index + 1 = Len(req[r].items)
                 THEN /\ resp' = BatchResponse(req[r].user, lists.results, lists.errors)
                      /\ req' = [req EXCEPT ![r] = Idle]
                 ELSE /\ req' = [req EXCEPT ![r].index = index + 1,
                                            ![r].results = lists.results,
                                            ![r].errors = lists.errors]
                      /\ UNCHANGED resp
           /\ UNCHANGED <<maxUploadSize, stream>>

\* One iteration of the loop over enumerate(files); the last iteration
\* also returns the response
BatchItem(r, fault) ==
    LET index == req[r].index
        file_obj == req[r].items[index + 1]
        raw == Lower(IF index = 0 THEN "True" ELSE "False")
    IN  /\ req[r].op = "batch_upload" /\ req[r].pc = "item"
        /\ FaultApplies(req[r].ltype, req[r].lid, file_obj, fault)
        /\ \E out \in {create(req[r].user, req[r].ltype, req[r].lid, raw, file_obj, fault)} :
           \E lists \in {Collect(req[r].results, req[r].errors, out)} :
           /\ out.status = 400 \/ Room
           /\ Commit(out)
           /\ IF index + 1 = Len(req[r].items)
                 THEN /\ resp' = BatchResponse(req[r].user, lists.results, lists.errors)
                      /\ req' = [req EXCEPT ![r] = Idle]
                 ELSE /\ req' = [req EXCEPT ![r].index = index + 1,
                                            ![r].results = lists.results,
                                            ![r].errors = lists.errors]
                      /\ UNCHANGED resp
           /\ UNCHANGED <<maxUploadSize, stream>>

---------------------------------------------------------------------------
(* UploadViewSet.by_listing *)

\* order_by('-is_primary', 'uploaded_at')
Before_oldest_first(tbl, i, j) ==
    \/ tbl[i].is_primary /\ ~tbl[j].is_primary
    \/ /\ tbl[i].is_primary = tbl[j].is_primary
       /\ \/ tbl[i].uploaded_at < tbl[j].uploaded_at
          \/ tbl[i].uploaded_at = tbl[j].uploaded_at /\ i < j

\* order_by('-is_primary', '-uploaded_at'); rows equal in both keys come
\* in the order of their ids
Before(tbl, i, j) ==
    \/ tbl[i].is_primary /\ ~tbl[j].is_primary
    \/ /\ tbl[i].is_primary = tbl[j].is_primary
       /\ \/ tbl[i].uploaded_at > tbl[j].uploaded_at
          \/ tbl[i].uploaded_at = tbl[j].uploaded_at /\ i < j

RECURSIVE OrderBy(_, _)
OrderBy(tbl, S) ==
    IF S = {} THEN <<>>
    ELSE LET first == CHOOSE i \in S : \A j \in S \ {i} : Before(tbl, i, j)
         IN  <<first>> \o OrderBy(tbl, S \ {first})

by_listing(tbl, listing_type, listing_id) ==
    OrderBy(tbl, {i \in DOMAIN tbl : /\ tbl[i].listing_type = listing_type
                                     /\ tbl[i].listing_id = listing_id})

ByListing(user, listing_type, listing_id) ==
    /\ resp' = IF ~Truthy(listing_type) \/ ~Truthy(listing_id)
               THEN Response("by_listing", user, NoPk, 400, "missing_field")
               ELSE [Response("by_listing", user, NoPk, 200, "") EXCEPT
                        !.results = by_listing(files, listing_type, listing_id)]
    /\ UNCHANGED <<files, blobs, log, nextId, nextBlob, now, maxUploadSize, stream, req>>

---------------------------------------------------------------------------
(* UpdateModelMixin.update and partial_update through                      *)
(* UploadedFileSerializer, on multipart form data: the fields of the       *)
(* serializer that are not read-only can be written; what is saved is the  *)
(* instance read by get_object                                             *)

TRUE_VALUES == {"t", "T", "y", "Y", "yes", "Yes", "YES", "true", "True", "TRUE",
                "on", "On", "ON", "1"}

FALSE_VALUES == {"f", "F", "n", "N", "no", "No", "NO", "false", "False", "FALSE",
                 "off", "Off", "OFF", "0"}

\* What a field of the serializer makes of the form data: ok is FALSE when
\* the field has an error, set is TRUE when value goes to the instance
Field(ok, set, value) == [ok |-> ok, set |-> set, value |-> value]

\* listing_type, a required ChoiceField: absent it is skipped by a partial
\* update and an error otherwise
listing_type_field(raw, partial) ==
    IF raw = None THEN Field(partial, FALSE, "")
    ELSE Field(raw \in LISTING_TYPES, TRUE, raw)

\* listing_id, a required CharField (max_length 128, blanks trimmed, a
\* blank value refused)
listing_id_field(raw, partial) ==
    IF raw = None THEN Field(partial, FALSE, "")
    ELSE LET value == Strip(raw)
         IN  Field(value # "" /\ Len(value) <= MaxListingIdLen, TRUE, value)

\* is_primary, a BooleanField that is not required: absent from the form
\* of a full update it is False (default_empty_html); an empty value is
\* skipped
is_primary_field(raw, partial) ==
    IF raw = None THEN Field(TRUE, ~partial, FALSE)
    ELSE IF raw = "" THEN Field(TRUE, FALSE, FALSE)
    ELSE Field(raw \in TRUE_VALUES \cup FALSE_VALUES, TRUE, raw \in TRUE_VALUES)

\* file, a required FileField (max_length 100, an empty file refused)
file_field(f, partial) ==
    IF f = NoFile THEN Field(partial, FALSE, NoFile)
    ELSE Field(f.name # "" /\ f.size > 0 /\ Len(f.name) <= MaxFileNameLen, TRUE, f)

\* serializer.is_valid
PatchValid(patch, partial) ==
    /\ listing_type_field(patch.listing_type, partial).ok
    /\ listing_id_field(patch.listing_id, partial).ok
    /\ is_primary_field(patch.is_primary, partial).ok
    /\ file_field(patch.file, partial).ok

\* serializer.update: the validated fields are set on the instance; with a
\* new file, UploadedFile.save takes file_size from it when file_size is 0
Patched(row, patch, partial) ==
    LET listing_type == listing_type_field(patch.listing_type, partial)
        listing_id == listing_id_field(patch.listing_id, partial)
        is_primary == is_primary_field(patch.is_primary, partial)
        file == file_field(patch.file, partial)
    IN  [row EXCEPT
            !.listing_type = IF listing_type.set THEN listing_type.value ELSE @,
            !.listing_id = IF listing_id.set THEN listing_id.value ELSE @,
            !.is_primary = IF is_primary.set THEN is_primary.value ELSE @,
            !.file_size = IF @ = 0 /\ file.set THEN file.value.size ELSE @]

\* get_object and serializer.is_valid of update (partial FALSE) or
\* partial_update (partial TRUE); the statements of instance.save() follow
\* (SaveFileSize, SaveWrite, SaveUpdate, SaveInsert).  The listing id and
\* the file name of the explored requests are texts (IsText)
UpdateGet(r, user, pk, patch, partial) ==
    /\ req[r].op = "idle"
    /\ IsText(patch.listing_id) /\ IsText(patch.file.name)
    /\ IF ~Found(files, user, pk)
          THEN /\ resp' = Response("update", user, pk, 404, "not_found")
               /\ UNCHANGED req
       ELSE IF ~PatchValid(patch, partial)
          THEN /\ resp' = Response("update", user, pk, 400, "invalid")
               /\ UNCHANGED req
          ELSE /\ req' = [req EXCEPT ![r] = [Idle EXCEPT !.op = "update",
                              !.pc = SaveEntry(files[pk], patch), !.user = user,
                              !.pk = pk, !.inst = Patched(files[pk], patch, partial),
                              !.patch = patch]]
               /\ UNCHANGED resp
    /\ UNCHANGED <<files, blobs, log, nextId, nextBlob, now, maxUploadSize, stream>>

---------------------------------------------------------------------------
(* The uploaded file as a stream: its read position, and what the image    *)
(* helpers do to it                                                        *)

\* A file object at a read position; call and result name the helper that
\* returned last and what it returned
Stream(f, pos, call, result) == [file |-> f, pos |-> pos, call |-> call, result |-> result]

Closed == Stream(NoFile, 0, "none", <<>>)

\* file_obj.seek(offset)
seek(s, offset) == [s EXCEPT !.pos = offset]

\* Image.open, img.thumbnail and img.save read the stream from the position
\* it is at; the reads of the explored files reach the end of the stream
read_image(s) == [s EXCEPT !.pos = s.file.size]

\* The stream after get_image_dimensions: seek(0), Image.open, and
\* seek(0) in the finally clause
stream_get_image_dimensions(s) ==
    [seek(read_image(seek(s, 0)), 0) EXCEPT
        !.call = "get_image_dimensions", !.result = get_image_dimensions(s.file)]

\* The stream after generate_thumbnail: seek(0), decode and encode, and
\* seek(0) in the finally clause
stream_generate_thumbnail(s) ==
    [seek(read_image(seek(s, 0)), 0) EXCEPT
        !.call = "generate_thumbnail", !.result = <<generate_thumbnail(s.file)>>]

---------------------------------------------------------------------------
(* Inputs of the exploration *)

\* settings.MAX_UPLOAD_SIZE: no entry at all, or entries for some types
NoLimits == <<>>

SomeLimits == [image |-> 10 * MiB, video |-> 50 * MiB]

Doc == Upload("a.pdf", "application/pdf", 1, "none")

Png == Upload("a.png", "image/png", 5 * MiB, "ok")

Huge == Upload("b.pdf", "application/pdf", 5 * MiB + 1, "none")

Range(q) == {q[i] : i \in DOMAIN q}

Seqs(S, n) == UNION {[1..k -> S] : k \in 0..n}

Pks == 1..MaxFiles

InitWith(configs) ==
    /\ files = <<>>
    /\ blobs = {}
    /\ log = <<>>
    /\ nextId = 1
    /\ nextBlob = 1
    /\ now = 1
    /\ maxUploadSize \in configs
    /\ req = [r \in Slots |-> Idle]
    /\ resp = Response("none", "", NoPk, 0, "")
    /\ stream = Closed

Init == InitWith({NoLimits})

---------------------------------------------------------------------------
(* Spec: every request of the view set, by two users on one listing.  The  *)
(* batch, set_primary, destroy and update requests run one at a time (slot *)
(* r1); the single uploads and the listing reads run between their         *)
(* statements.  SpecPrimary, SpecDelete, SpecFrame and SpecUpdate          *)
(* interleave the statements of two such requests.                         *)

Patches ==
    {[NoPatch EXCEPT !.is_primary = "true"],
     [NoPatch EXCEPT !.listing_id = "L2"]}

ReqCreate ==
    \E u \in Users, raw \in {"true", "false"} : Create(u, "house", "L1", raw, Doc, "none")

ReqBatch == \E items \in Seqs({Doc}, MaxBatch) : BatchStart("r1", "u1", items, "house", "L1")

StepBatchItem == BatchItem("r1", "none")

ReqSetPrimary == \E u \in Users, pk \in Pks : SetPrimaryGet("r1", u, pk)

StepSetPrimaryClear == SetPrimaryClear("r1")

StepSaveUpdate == SaveUpdate("r1", "none")

ReqDestroy == \E u \in Users, pk \in Pks : DestroyGet("r1", u, pk)

StepDestroyLog == DestroyLog("r1", "none")

StepDestroySelect == DestroySelect("r1")

StepDestroyFile == DestroyFile("r1", "none")

StepDestroyRow == DestroyRow("r1", "none")

ReqUpdate ==
    \E pk \in Pks, patch \in Patches, partial \in BOOLEAN :
        UpdateGet("r1", "u1", pk, patch, partial)

ReqByListing == ByListing("u1", "house", "L1")

Next ==
    \/ ReqCreate
    \/ ReqBatch
    \/ StepBatchItem
    \/ ReqSetPrimary
    \/ StepSetPrimaryClear
    \/ StepSaveUpdate
    \/ ReqDestroy
    \/ StepDestroyLog
    \/ StepDestroySelect
    \/ StepDestroyFile
    \/ StepDestroyRow
    \/ ReqUpdate
    \/ ReqByListing

Spec == Init /\ [][Next]_vars

---------------------------------------------------------------------------
(* State functions used by the properties *)

Key(row) == <<row.listing_type, row.listing_id, row.user_uid>>

Primaries(tbl, k) == {i \in DOMAIN tbl : Key(tbl[i]) = k /\ tbl[i].is_primary}

Keys(tbl) == {Key(tbl[i]) : i \in DOMAIN tbl}

AllIdle == \A r \in Slots : req[r].op = "idle"

OthersIdle(r) == \A q \in Slots \ {r} : req[q].op = "idle"

---------------------------------------------------------------------------
(* SpecSeq: uploads and set_primary requests of two users on two listings, *)
(* one request at a time                                                   *)

SeqCreate ==
    \E u \in Users, lid \in {"L1", "L2"}, raw \in {"true", "false"} :
        Create(u, "house", lid, raw, Doc, "none")

SeqSetPrimary == \E u \in Users, pk \in Pks : SetPrimaryGet("r1", u, pk)

SeqClear == SetPrimaryClear("r1")

SeqSave == SaveUpdate("r1", "none")

NextSeq == SeqCreate \/ SeqSetPrimary \/ SeqClear \/ SeqSave

SpecSeq == Init /\ [][NextSeq]_vars

\* C1: whenever no request is in progress, every listing key has at most
\* one row with is_primary set (Invariant I1 after committed create and
\* set-primary operations).
C1_AtMostOnePrimary ==
    AllIdle => \A k \in Keys(files) : Cardinality(Primaries(files, k)) <= 1

\* C3: with A primary and B not primary under one listing key,
\* set_primary(B) ends with B primary and A not, and no statement of it
\* leaves a state in which both or neither of A and B are primary.
C3_PrimarySwapAtomic ==
    [][\A a \in DOMAIN files :
        LET b == req["r1"].pk
        IN  (/\ req["r1"].op = "set_primary"
             /\ {a, b} \subseteq DOMAIN files /\ {a, b} \subseteq DOMAIN files'
             /\ a # b /\ Key(files[a]) = Key(files[b]))
            => /\ (req["r1"].pc = "clear" /\ files[a].is_primary /\ ~files[b].is_primary)
                    => (files'[a].is_primary # files'[b].is_primary)
               /\ (req["r1"].pc = "update" /\ ~files[a].is_primary /\ req'["r1"].op = "idle")
                    => (files'[b].is_primary /\ ~files'[a].is_primary)
    ]_vars

---------------------------------------------------------------------------
(* SpecPrimary: one owner, one listing, rows uploaded without the flag,    *)
(* and set_primary requests of two clients interleaved statement by        *)
(* statement                                                               *)

PrimCreate == Create("u1", "house", "L1", "false", Doc, "none")

PrimSetPrimary == \E r \in Slots, pk \in Pks : SetPrimaryGet(r, "u1", pk)

PrimClear == \E r \in Slots : SetPrimaryClear(r)

PrimSave == \E r \in Slots : SaveUpdate(r, "none")

NextPrimary == PrimCreate \/ PrimSetPrimary \/ PrimClear \/ PrimSave

SpecPrimary == Init /\ [][NextPrimary]_vars

\* C2: once the set_primary requests on two different rows A and B of one
\* listing key have both completed, A and B are not both primary.
C2_ConcurrentSetPrimary ==
    \A a, b \in DOMAIN files :
        (/\ AllIdle /\ resp.op = "set_primary" /\ resp.status = 200
         /\ a # b /\ Key(files[a]) = Key(files[b]))
        => ~(files[a].is_primary /\ files[b].is_primary)

---------------------------------------------------------------------------
(* SpecBatch: batch uploads of one user to one listing, next to single     *)
(* uploads and listing reads; an item may be too large, and the storage    *)
(* write or the insert of an item may fail                                 *)

BatchCreate == \E raw \in {"true", "false"} : Create("u1", "house", "L1", raw, Doc, "none")

BatchReq ==
    \E items \in Seqs({Doc, Huge}, MaxBatch) : BatchStart("r1", "u1", items, "house", "L1")

BatchStep == \E fault \in {"none", "blob_write", "insert"} : BatchItem("r1", fault)

BatchList == ByListing("u1", "house", "L1")

NextBatch == BatchCreate \/ BatchReq \/ BatchStep \/ BatchList

SpecBatch == Init /\ [][NextBatch]_vars

\* C4: when the listing key of the caller already has its primary row, no
\* step of a batch upload changes the is_primary flag of an existing row or
\* inserts a row with is_primary set, and the key keeps exactly one primary.
C4_BatchPrimaryNoOp ==
    [][\A r \in Slots :
        LET k == <<req[r].ltype, req[r].lid, req[r].user>>
        IN  (req[r].op = "batch_upload" /\ req'[r] # req[r]
             /\ Cardinality(Primaries(files, k)) = 1)
            => /\ \A i \in DOMAIN files :
                    i \in DOMAIN files' /\ files'[i].is_primary = files[i].is_primary
               /\ \A i \in DOMAIN files' \ DOMAIN files : ~files'[i].is_primary
               /\ Cardinality(Primaries(files', k)) = 1
    ]_vars

\* C5: every iteration of a batch puts its file into exactly one of
\* results and errors and keeps the earlier entries, stops only after the
\* last file, never touches the rows committed for earlier files, inserts
\* no row for a failed file, and the response counts add up to the number
\* of files with every reported row returned by by_listing.
C5_BatchIsolation ==
    [][\A r \in Slots :
        (req[r].op = "batch_upload" /\ req'[r] # req[r]) =>
        LET n == Len(req[r].items)
            done == req'[r].op = "idle"
            res == IF done THEN resp'.results ELSE req'[r].results
            err == IF done THEN resp'.errors ELSE req'[r].errors
        IN  /\ Len(res) + Len(err) = req[r].index + 1
            /\ \/ /\ Len(res) = Len(req[r].results) + 1
                  /\ SubSeq(res, 1, Len(res) - 1) = req[r].results
                  /\ err = req[r].errors
                  /\ DOMAIN files' = DOMAIN files \cup {res[Len(res)]}
               \/ /\ Len(err) = Len(req[r].errors) + 1
                  /\ SubSeq(err, 1, Len(err) - 1) = req[r].errors
                  /\ res = req[r].results
                  /\ files' = files
            /\ \A id \in DOMAIN files : id \in DOMAIN files' /\ files'[id] = files[id]
            /\ done <=> req[r].index + 1 = n
            /\ done => /\ resp'.op = "batch_upload" /\ resp'.status = 200
                        /\ resp'.success = Len(res) /\ resp'.failed = Len(err)
                        /\ resp'.success + resp'.failed = n
                        /\ Range(res) \subseteq
                             Range(by_listing(files', req[r].ltype, req[r].lid))
    ]_vars

\* C5 witness: a batch has returned with one file stored and one file failed
C5_Witness ==
    /\ resp.op = "batch_upload" /\ resp.success >= 1 /\ resp.failed >= 1
    /\ Range(resp.results) \subseteq DOMAIN files

---------------------------------------------------------------------------
(* SpecSize: single uploads with sizes at and above the ceilings, with and *)
(* without their listing type, under both settings                         *)

InitSize == InitWith({NoLimits, SomeLimits})

SizeTypes == {"house", "car", None}

SizeUploads ==
    {Upload("a.png", "image/png", 5 * MiB, "ok"),
     Upload("a.png", "image/png", 5 * MiB + 1, "ok"),
     Upload("a.png", "image/png", 10 * MiB, "ok"),
     Upload("a.png", "image/png", 10 * MiB + 1, "ok"),
     Upload("a.bin", "", 5 * MiB, "none"),
     Upload("a.bin", "", 5 * MiB + 1, "none")}

SizeIds == {"L1", ""}

SizeCreate ==
    \E lt \in SizeTypes, lid \in SizeIds, f \in SizeUploads :
        Create("u1", lt, lid, "false", f, "none")

NextSize == SizeCreate

SpecSize == InitSize /\ [][NextSize]_vars

\* The ceiling of an upload: the configured entry of its type, else 5 MiB
Ceiling(f) ==
    LET t == detect_file_type(MimeOf(f))
    IN  IF t \in DOMAIN maxUploadSize THEN maxUploadSize[t] ELSE 5 * 1024 * 1024

\* C6 as stated: every upload larger than the ceiling of its type is
\* answered with the file-too-large error and changes neither the rows, the
\* storage nor the log; an upload of exactly the ceiling is not answered
\* with that error.
C6_SizeLimitAsStated ==
    [][\A lt \in SizeTypes, lid \in SizeIds, f \in SizeUploads :
        (f.size >= Ceiling(f) /\ Create("u1", lt, lid, "false", f, "none")) =>
            /\ f.size > Ceiling(f) =>
                  /\ resp'.status = 400 /\ resp'.error = "file_too_large"
                  /\ UNCHANGED store
            /\ f.size = Ceiling(f) => resp'.error # "file_too_large"
    ]_vars

\* C6 amended: an upload that has its file, listing type and listing id and
\* is larger than the ceiling of its type is answered with the
\* file-too-large error; an upload larger than the ceiling that lacks its
\* listing type or its listing id is answered with the missing-field error;
\* in both cases the rows, the storage and the log are unchanged.  An
\* upload of exactly the ceiling is not answered with file-too-large.
C6_SizeLimit ==
    [][\A lt \in SizeTypes, lid \in SizeIds, f \in SizeUploads :
        (f.size >= Ceiling(f) /\ Create("u1", lt, lid, "false", f, "none")) =>
            /\ f.size > Ceiling(f) =>
                  /\ resp'.status = 400
                  /\ resp'.error = IF Truthy(lt) /\ Truthy(lid) THEN "file_too_large"
                                    ELSE "missing_field"
                  /\ UNCHANGED store
            /\ f.size = Ceiling(f) => resp'.error # "file_too_large"
    ]_vars

\* C6 witness: under the settings that raise the image ceiling, an upload
\* was refused as too large after an image of more than 5 MiB was stored
C6_Witness ==
    /\ resp.op = "create" /\ resp.status = 400 /\ resp.error = "file_too_large"
    /\ maxUploadSize = SomeLimits
    /\ \E i \in DOMAIN files : files[i].file_size > DefaultMaxSize

---------------------------------------------------------------------------
(* SpecFields: single uploads with present, absent and malformed fields    *)

FieldTypes == {"house", "boat", None}

FieldIds == {"L1", "", LongId}

FieldUploads == {NoFile, Doc, Png}

FieldCreate ==
    \E lt \in FieldTypes, lid \in FieldIds, f \in FieldUploads :
        Create("u1", lt, lid, "false", f, "none")

NextFields == FieldCreate

SpecFields == Init /\ [][NextFields]_vars

\* C7: an upload without a file, with a listing type other than house and
\* car, or with a listing id that is empty or longer than 128 characters is
\* refused and changes neither the rows, the storage nor the log.
C7_FieldValidation ==
    [][\A lt \in FieldTypes, lid \in FieldIds, f \in FieldUploads :
        (/\ \/ f = NoFile
            \/ lt \notin LISTING_TYPES
            \/ lid = "" \/ lid = None \/ Len(lid) > MaxListingIdLen
         /\ Create("u1", lt, lid, "false", f, "none"))
        => /\ resp'.status >= 400
           /\ UNCHANGED store
    ]_vars

---------------------------------------------------------------------------
(* Properties of Spec *)

\* C8: a destroy or set_primary request that names a row of another owner
\* is answered 404, goes no further, and changes no row (so no is_primary
\* flag), no stored object and no log entry.
C8_OwnershipGuard ==
    [][\A u \in Users, pk \in Pks :
        (/\ pk \in DOMAIN files /\ files[pk].user_uid # u
         /\ SetPrimaryGet("r1", u, pk) \/ DestroyGet("r1", u, pk))
        => /\ resp'.status = 404 /\ resp'.user = u /\ resp'.pk = pk
           /\ resp'.op \in {"set_primary", "destroy"}
           /\ req' = req
           /\ UNCHANGED store
    ]_vars

\* C8 witness: set_primary on an existing, not yet primary row of another
\* owner was answered 404
C8_Witness ==
    /\ resp.op = "set_primary" /\ resp.status = 404
    /\ resp.pk \in DOMAIN files
    /\ files[resp.pk].user_uid # resp.user
    /\ ~files[resp.pk].is_primary

---------------------------------------------------------------------------
(* SpecDelete: uploads with and without a thumbnail by one owner, and      *)
(* destroy requests of two clients interleaved statement by statement; the *)
(* log write, the removal of either stored object and the removal of the   *)
(* row may fail                                                            *)

DelCreate == \E f \in {Doc, Png} : Create("u1", "house", "L1", "false", f, "none")

DelDestroy == \E r \in Slots, pk \in Pks : DestroyGet(r, "u1", pk)

DelLog == \E r \in Slots, fault \in {"none", "log"} : DestroyLog(r, fault)

DelSelect == \E r \in Slots : DestroySelect(r)

DelFile == \E r \in Slots, fault \in {"none", "file_blob"} : DestroyFile(r, fault)

DelThumbnail == \E r \in Slots, fault \in {"none", "thumb_blob"} : DestroyThumbnail(r, fault)

DelRow == \E r \in Slots, fault \in {"none", "row"} : DestroyRow(r, fault)

NextDelete ==
    \/ DelCreate
    \/ DelDestroy
    \/ DelLog
    \/ DelSelect
    \/ DelFile
    \/ DelThumbnail
    \/ DelRow

SpecDelete == Init /\ [][NextDelete]_vars

DeleteEntries(l, pk) == {i \in DOMAIN l : l[i].action = "delete" /\ l[i].file_id = pk}

\* C9: the statements of a destroy request do what the claim lists, and a
\* request is answered 204 only after all of them: its log statement appends
\* exactly one entry, with action delete and the id of the row, and its
\* other statements append none; its file statement removes the file object
\* of the row it read, and its thumbnail statement, which follows exactly
\* when that row has a thumbnail, removes the thumbnail object; its DELETE
\* leaves no row of the id.
C9_DeleteComplete ==
    [][\A r \in Slots :
        (req[r].op = "destroy" /\ req'[r] # req[r]) =>
        LET pk == req[r].pk
            inst == req[r].inst
            goesOn == req'[r].op = "destroy"
        IN  /\ (req[r].pc = "log" /\ goesOn) =>
                  /\ req'[r].pc = "perform"
                  /\ Len(log') = Len(log) + 1
                  /\ SubSeq(log', 1, Len(log)) = log
                  /\ log'[Len(log')].action = "delete"
                  /\ log'[Len(log')].file_id = pk
                  /\ log'[Len(log')].user_uid = req[r].user
            /\ req[r].pc # "log" => log' = log
            /\ (req[r].pc = "perform" /\ goesOn) =>
                  /\ req'[r].pc = "file"
                  /\ req'[r].inst = files[pk]
            /\ (req[r].pc = "file" /\ goesOn) =>
                  /\ inst.file \notin blobs'
                  /\ req'[r].pc = IF inst.thumbnail # NoBlob THEN "thumb" ELSE "row"
                  /\ req'[r].inst = inst
            /\ (req[r].pc = "thumb" /\ goesOn) =>
                  /\ inst.thumbnail \notin blobs'
                  /\ req'[r].pc = "row"
                  /\ req'[r].inst = inst
            /\ (req'[r].op = "idle" /\ resp'.status = 204) =>
                  /\ req[r].pc = "row"
                  /\ inst.id = pk /\ inst.user_uid = req[r].user
                  /\ pk \notin DOMAIN files'
                  /\ DeleteEntries(log', pk) # {}
    ]_vars

\* C9 witness: the only row, uploaded with a thumbnail, was destroyed with
\* answer 204: the storage is empty and the log has its delete entry
C9_Witness ==
    /\ resp.op = "destroy" /\ resp.status = 204
    /\ nextId = 2 /\ nextBlob = 3
    /\ DOMAIN files = {} /\ blobs = {}
    /\ Cardinality(DeleteEntries(log, resp.pk)) = 1

\* C10: whenever a destroy request ends, whatever its answer, either the
\* row and its stored objects are gone and the log has a delete entry of
\* the row, or the row and its stored objects are all still there and the
\* log has no delete entry of the row.
C10_DeleteAllOrNothing ==
    [][\A r \in Slots :
        (req[r].op = "destroy" /\ req'[r].op = "idle" /\ req[r].pk \in DOMAIN files) =>
        LET pk == req[r].pk
            row == files[pk]
        IN  \/ /\ pk \notin DOMAIN files'
               /\ row.file \notin blobs' /\ row.thumbnail \notin blobs'
               /\ DeleteEntries(log', pk) # {}
            \/ /\ pk \in DOMAIN files'
               /\ row.file \in blobs'
               /\ row.thumbnail # NoBlob => row.thumbnail \in blobs'
               /\ DeleteEntries(log', pk) = {}
    ]_vars

-----
(* SpecUpload: single uploads of documents, one of them too large, and of  *)
(* images that decode, that decode only as far as their header, or that do *)
(* not decode at all, one of these with an extension of 73 characters; any *)
(* write of the call may fail.                                             *)

Trunc == Upload("t.png", "image/png", 2, "truncated")

Bad == Upload("x.png", "image/png", 3, "none")

\* An image that does not decode, under a file name whose extension (the
\* dot and 72 letters) leaves no room for the uuid4 in a path of 100
LongExt ==
    Upload("x.EEEEEEEEEEEEEEEEEEEEEEEEEEEEEEEEEEEEEEEEEEEEEEEEEEEEEEEEEEEEEEEEEEEEEEEE",
           "image/png", 3, "none")

ImgUploads == {Doc, Png, Trunc, Bad, LongExt}

UpUploads == ImgUploads \cup {Huge}

UpCreate ==
    \E f \in UpUploads, fault \in CreateFaults :
        Create("u1", "house", "L1", "false", f, fault)

NextUpload == UpCreate

SpecUpload == Init /\ [][NextUpload]_vars

---------------------------------------------------------------------------
(* SpecImage: the uploads of SpecUpload without failing writes; the file   *)
(* of the first row can be replaced through update and partial_update,     *)
(* whose storage write and UPDATE may fail; the uploads run between the    *)
(* statements of an update.                                                *)

ImgCreate == \E f \in ImgUploads : Create("u1", "house", "L1", "false", f, "none")

ImgPatches ==
    {[NoPatch EXCEPT !.listing_type = "house", !.listing_id = " L1 ", !.file = Doc]}

ImgUpdate ==
    \E patch \in ImgPatches, partial \in BOOLEAN :
        UpdateGet("r1", "u1", 1, patch, partial)

ImgWrite == \E fault \in {"none", "blob_write"} : SaveWrite("r1", fault)

ImgSave == \E fault \in {"none", "row"} : SaveUpdate("r1", fault)

NextImage == ImgCreate \/ ImgUpdate \/ ImgWrite \/ ImgSave

SpecImage == Init /\ [][NextImage]_vars

UploadIds(l) == {l[i].file_id : i \in {j \in DOMAIN l : l[j].action = "upload"}}

\* C11: every call of create, whichever of its writes fails, inserts a row
\* exactly when it appends an upload log entry of that row, so that the ids
\* with an upload entry are the ids of the rows; a call answered 201
\* appends exactly one entry, with action upload and the id of the new row,
\* and any other call appends none and inserts no row.
C11_UploadWithLog ==
    [][\A f \in UpUploads, fault \in CreateFaults :
        Create("u1", "house", "L1", "false", f, fault) =>
        LET new == DOMAIN files' \ DOMAIN files
        IN  /\ UploadIds(log') \ UploadIds(log) = new
            /\ UploadIds(log') = DOMAIN files'
            /\ resp'.status = 201 =>
                  /\ new = {resp'.pk}
                  /\ Len(log') = Len(log) + 1
                  /\ SubSeq(log', 1, Len(log)) = log
                  /\ log'[Len(log')].action = "upload"
                  /\ log'[Len(log')].file_id = resp'.pk
            /\ resp'.status # 201 => new = {} /\ log' = log /\ files' = files
    ]_vars

\* C11 witness: after a call that failed behind its storage writes (objects
\* without a row are left), an image upload was answered 201 and the log
\* holds exactly the entry of its row
C11_Witness ==
    /\ resp.op = "create" /\ resp.status = 201
    /\ DOMAIN files = {resp.pk}
    /\ files[resp.pk].thumbnail # NoBlob
    /\ Cardinality(blobs) > 2
    /\ Len(log) = 1 /\ log[1].file_id = resp.pk

---------------------------------------------------------------------------
(* More properties of Spec *)

EntriesOf(l, pk) == {i \in DOMAIN l : l[i].file_id = pk}

\* C12: no step of a create, batch upload, set_primary, update or destroy
\* request shortens the log or changes an entry already in it: the log
\* before the step is a prefix of the log after it; in particular the step
\* that removes a row keeps every entry that refers to the row.
C12_LogAppendOnly ==
    [][/\ Len(log') >= Len(log)
       /\ SubSeq(log', 1, Len(log)) = log
       /\ \A pk \in DOMAIN files \ DOMAIN files' :
             /\ EntriesOf(log, pk) # {}
             /\ \A i \in EntriesOf(log, pk) : i \in DOMAIN log' /\ log'[i] = log[i]
    ]_vars

\* C12 witness: a row was destroyed with answer 204 and the log still has
\* its upload entry, followed by its delete entry
C12_Witness ==
    /\ resp.op = "destroy" /\ resp.status = 204
    /\ resp.pk \notin DOMAIN files
    /\ \E i, j \in EntriesOf(log, resp.pk) :
          i < j /\ log[i].action = "upload" /\ log[j].action = "delete"

---------------------------------------------------------------------------
(* SpecUpdate: uploads of one owner to one listing, the partial updates   *)
(* of the first upload by two clients and the destroy requests of the      *)
(* first client for it, interleaved statement by statement; the storage    *)
(* write and the UPDATE of an update may fail                              *)

UpdPatches ==
    {[NoPatch EXCEPT !.is_primary = "true"],
     [NoPatch EXCEPT !.listing_id = "L2"],
     [NoPatch EXCEPT !.file = Doc]}

UpdCreate == Create("u1", "house", "L1", "false", Doc, "none")

UpdGet == \E r \in Slots, patch \in UpdPatches : UpdateGet(r, "u1", 1, patch, TRUE)

UpdWrite == \E r \in Slots, fault \in {"none", "blob_write"} : SaveWrite(r, fault)

UpdSave == \E r \in Slots, fault \in {"none", "row"} : SaveUpdate(r, fault)

UpdInsert == \E r \in Slots : SaveInsert(r)

UpdDestroy == DestroyGet("r1", "u1", 1)

UpdLog == DestroyLog("r1", "none")

UpdSelect == DestroySelect("r1")

UpdFile == DestroyFile("r1", "none")

UpdRow == DestroyRow("r1", "none")

NextUpdate ==
    \/ UpdCreate
    \/ UpdGet
    \/ UpdWrite
    \/ UpdSave
    \/ UpdInsert
    \/ UpdDestroy
    \/ UpdLog
    \/ UpdSelect
    \/ UpdFile
    \/ UpdRow

SpecUpdate == Init /\ [][NextUpdate]_vars

\* C13: no step changes the listing type, the listing id or the owner of an
\* existing row, and only the statements of set_primary change the
\* is_primary flag of an existing row.
C13_CoordinatorOnly ==
    [][\A i \in DOMAIN files \cap DOMAIN files' :
          /\ files'[i].listing_type = files[i].listing_type
          /\ files'[i].listing_id = files[i].listing_id
          /\ files'[i].user_uid = files[i].user_uid
          /\ files'[i].is_primary # files[i].is_primary =>
                \E r \in Slots : req[r].op = "set_primary"
    ]_vars

---------------------------------------------------------------------------
(* Properties of SpecImage *)

ImageOnly ==
    \A i \in DOMAIN files :
        (files[i].thumbnail # NoBlob \/ files[i].width # NoDim \/ files[i].height # NoDim)
            => files[i].file_type = "image"

\* C14: an upload with all its fields, under a file name the storage
\* accepts, whose file is classified as an image but does not decode (no
\* dimensions, no thumbnail) or decodes only as far as its header (no
\* thumbnail) is answered 201 when no write fails: its row is inserted with
\* NULL width and height and/or without a thumbnail, and its upload log
\* entry is appended.  An upload under a file name the storage refuses is
\* answered 400, whatever its bytes, and leaves rows, storage and log as
\* they were.  In every state only rows of file type image have a
\* thumbnail, a width or a height.
C14_BestEffortImage ==
    /\ []ImageOnly
    /\ [][\A f \in ImgUploads :
            Create("u1", "house", "L1", "false", f, "none") =>
            IF StorageRefuses(f)
            THEN /\ resp'.status = 400
                 /\ files' = files /\ blobs' = blobs /\ log' = log
            ELSE (detect_file_type(MimeOf(f)) = "image" /\ f.image # "ok") =>
                 LET pk == resp'.pk
                 IN  /\ resp'.status = 201
                     /\ pk \in DOMAIN files' \ DOMAIN files
                     /\ files'[pk].file_type = "image"
                     /\ files'[pk].file \in blobs'
                     /\ files'[pk].thumbnail = NoBlob
                     /\ f.image = "none" =>
                           files'[pk].width = NoDim /\ files'[pk].height = NoDim
                     /\ Len(log') = Len(log) + 1
                     /\ log'[Len(log')].action = "upload"
                     /\ log'[Len(log')].file_id = pk
       ]_vars

\* C14 witness: an upload of type image/png that does not decode was
\* answered 201; its row has neither dimensions nor a thumbnail, and the
\* log has its entry
C14_Witness ==
    /\ resp.op = "create" /\ resp.status = 201
    /\ resp.pk \in DOMAIN files
    /\ files[resp.pk].file_type = "image"
    /\ files[resp.pk].width = NoDim /\ files[resp.pk].thumbnail = NoBlob
    /\ \E i \in DOMAIN log : log[i].action = "upload" /\ log[i].file_id = resp.pk

---------------------------------------------------------------------------
(* SpecStream: the image helpers called on streams of image/png uploads    *)
(* at any read position.  The upload handler hands over a stream at        *)
(* position 0; code that reads or seeks it between the calls (the storage  *)
(* write of objects.create reads it to its end) moves the position.        *)

StreamUploads ==
    {Upload("s.png", "image/png", n, kind) :
        n \in 1..MaxStream, kind \in {"ok", "truncated", "none"}}

StreamOpen ==
    /\ \E f \in StreamUploads : stream' = Stream(f, 0, "none", <<>>)
    /\ UNCHANGED <<files, blobs, log, nextId, nextBlob, now, maxUploadSize, req, resp>>

StreamSeek ==
    /\ stream.file # NoFile
    /\ \E pos \in 0..stream.file.size : stream' = seek(stream, pos)
    /\ UNCHANGED <<files, blobs, log, nextId, nextBlob, now, maxUploadSize, req, resp>>

StreamDimensions ==
    /\ stream.file # NoFile
    /\ stream' = stream_get_image_dimensions(stream)
    /\ UNCHANGED <<files, blobs, log, nextId, nextBlob, now, maxUploadSize, req, resp>>

StreamThumbnail ==
    /\ stream.file # NoFile
    /\ stream' = stream_generate_thumbnail(stream)
    /\ UNCHANGED <<files, blobs, log, nextId, nextBlob, now, maxUploadSize, req, resp>>

NextStream == StreamOpen \/ StreamSeek \/ StreamDimensions \/ StreamThumbnail

SpecStream == Init /\ [][NextStream]_vars

\* C15: whatever the read position of the stream before the call and
\* whether or not the bytes decode, the read position after
\* get_image_dimensions and after generate_thumbnail is the position before
\* the call.
C15_StreamPositionRestored ==
    [][(StreamDimensions \/ StreamThumbnail) => stream'.pos = stream.pos]_vars

---------------------------------------------------------------------------
(* SpecList: uploads of two users to two listings, with and without the  *)
(* primary flag, and listing reads by either user                          *)

ListIds == {"L1", "L2"}

ListCreate ==
    \E u \in Users, lid \in ListIds, raw \in {"true", "false"} :
        Create(u, "house", lid, raw, Doc, "none")

ListRead == \E u \in Users, lid \in ListIds \cup {""} : ByListing(u, "house", lid)

NextList == ListCreate \/ ListRead

SpecList == Init /\ [][NextList]_vars

Matching(tbl, lt, lid) ==
    {i \in DOMAIN tbl : tbl[i].listing_type = lt /\ tbl[i].listing_id = lid}

\* q lists every row of S once, primary rows before the others and, among
\* rows with the same flag, later uploaded_at first
Ordered(tbl, S, q) ==
    /\ Len(q) = Cardinality(S)
    /\ Range(q) = S
    /\ \A m, n \in DOMAIN q :
          m < n =>
             /\ ~(~tbl[q[m]].is_primary /\ tbl[q[n]].is_primary)
             /\ tbl[q[m]].is_primary = tbl[q[n]].is_primary =>
                   tbl[q[m]].uploaded_at >= tbl[q[n]].uploaded_at

\* C16: a by_listing request with both parameters is answered 200 with
\* exactly the rows of that listing type and listing id, whoever owns them,
\* every primary row before every other row and rows with equal flags in
\* descending uploaded_at; the same holds of the list computed for every
\* listing of the table.
C16_ByListingOrder ==
    [][/\ \A u \in Users, lid \in ListIds :
             ByListing(u, "house", lid) =>
                /\ resp'.status = 200
                /\ Ordered(files, Matching(files, "house", lid), resp'.results)
       /\ \A lid \in ListIds :
             Ordered(files', Matching(files', "house", lid),
                     by_listing(files', "house", lid))
    ]_vars

\* C16 witness: the listing has an older primary row and a newer row of
\* another owner that is not primary, and by_listing returned the older
\* row first
C16_Witness ==
    /\ resp.op = "by_listing" /\ resp.status = 200
    /\ Len(resp.results) = 2
    /\ Range(resp.results) \subseteq DOMAIN files
    /\ LET a == resp.results[1]
           b == resp.results[2]
       IN  /\ files[a].is_primary /\ ~files[b].is_primary
           /\ files[a].uploaded_at < files[b].uploaded_at
           /\ files[a].user_uid # files[b].user_uid
           /\ files[a].listing_id = "L1" /\ files[b].listing_id = "L1"

---------------------------------------------------------------------------
(* SpecClassify: uploads whose Content-Type header is any of a set of      *)
(* strings: well-formed types, bare prefixes, the prefixes in upper case   *)
(* or behind other characters, and the empty string                        *)

\* Content types, each with the category the prefix rule gives it
MimeCases ==
    {<<"image/png", "image">>, <<"image/", "image">>, <<"image/svg+xml", "image">>,
     <<"video/mp4", "video">>, <<"video/", "video">>,
     <<"audio/mpeg", "audio">>, <<"audio/", "audio">>,
     <<"application/pdf", "document">>, <<"application/octet-stream", "document">>,
     <<"", "document">>, <<"image", "document">>, <<"imag", "document">>,
     <<"IMAGE/PNG", "document">>, <<" image/png", "document">>,
     <<"text/image/png", "document">>, <<"video", "document">>,
     <<"audio", "document">>, <<"/", "document">>}

Mimes == {c[1] : c \in MimeCases}

ClassifyCreate ==
    \E m \in Mimes : Create("u1", "house", "L1", "false", Upload("a", m, 1, "none"), "none")

NextClassify == ClassifyCreate

SpecClassify == Init /\ [][NextClassify]_vars

\* C17: detect_file_type gives every string a category: image, video or
\* audio when the string starts with 'image/', 'video/' or 'audio/', and
\* document otherwise, the empty string included; the file type of every
\* stored row is the category of its mime type, so rows with the same mime
\* type have the same file type.
C17_ClassifierTotal ==
    /\ \A c \in MimeCases : detect_file_type(c[1]) = c[2]
    /\ \A m \in Mimes : detect_file_type(m) \in FILE_TYPES
    /\ \A i \in DOMAIN files :
          /\ files[i].file_type = detect_file_type(files[i].mime_type)
          /\ \E c \in MimeCases : c[1] = files[i].mime_type /\ c[2] = files[i].file_type
    /\ \A i, j \in DOMAIN files :
          files[i].mime_type = files[j].mime_type => files[i].file_type = files[j].file_type

\* C17 witness: a row uploaded with the bare prefix 'image/' is an image and
\* a row uploaded without a content type is a document
C17_Witness ==
    \E i, j \in DOMAIN files :
        /\ files[i].mime_type = "image/" /\ files[i].file_type = "image"
        /\ files[j].mime_type = "application/octet-stream"
        /\ files[j].file_type = "document"
        /\ resp.op = "create" /\ resp.status = 201

---------------------------------------------------------------------------
(* Stored objects and rows in SpecUpload *)

Referenced(tbl) ==
    {tbl[i].file : i \in DOMAIN tbl} \cup ({tbl[i].thumbnail : i \in DOMAIN tbl} \ {NoBlob})

\* C18: a call of create that fails after it has written the file object,
\* or the thumbnail object, to the storage leaves no row behind and no
\* object in the storage that was not there before and is not referenced
\* by a row.
C18_NoOrphanBlob ==
    [][\A f \in UpUploads, fault \in CreateFaults \ {"none"} :
        Create("u1", "house", "L1", "false", f, fault) =>
            /\ resp'.status >= 400
            /\ files' = files
            /\ (blobs' \ Referenced(files')) \subseteq blobs
    ]_vars

---------------------------------------------------------------------------
(* More properties of SpecBatch *)

\* C19: an iteration of a batch upload at index 1 or higher never inserts a
\* row with is_primary set, whether or not the file at index 0 was stored,
\* and leaves the flags of the rows stored by earlier iterations alone; so
\* of the rows a batch reports only the first can be primary, and a batch
\* whose file at index 0 is refused reports no primary row.
C19_BatchPrimaryIndexZero ==
    [][\A r \in Slots :
        (req[r].op = "batch_upload" /\ req'[r] # req[r]) =>
        LET new == DOMAIN files' \ DOMAIN files
            done == req'[r].op = "idle"
            res == IF done THEN resp'.results ELSE req'[r].results
            first == req[r].items[1]
            refused == TooLarge(first.size,
                                MaxSizeFor(maxUploadSize, detect_file_type(MimeOf(first))))
        IN  /\ req[r].index >= 1 => \A i \in new : ~files'[i].is_primary
            /\ \A n \in DOMAIN res : n >= 2 => ~files'[res[n]].is_primary
            /\ refused => \A n \in DOMAIN res : ~files'[res[n]].is_primary
    ]_vars

\* C19 witness: a batch has returned with one file stored and one file
\* failed, and no row is primary: the file at index 0 failed and the file
\* at index 1 was stored without the flag
C19_Witness ==
    /\ resp.op = "batch_upload" /\ resp.success = 1 /\ resp.failed = 1
    /\ resp.results[1] \in DOMAIN files
    /\ \A i \in DOMAIN files : ~files[i].is_primary

---------------------------------------------------------------------------
(* SpecFrame: uploads of two users to two listings (one of them an empty   *)
(* file), set_primary requests of one client and destroy requests of       *)
(* another, interleaved statement by statement                             *)

Empty == Upload("e.pdf", "application/pdf", 0, "none")

FrameCreate ==
    \/ \E u \in Users, lid \in ListIds, raw \in {"true", "false"} :
          Create(u, "house", lid, raw, Doc, "none")
    \/ Create("u1", "house", "L1", "false", Empty, "none")

FrameSetPrimary == \E u \in Users, pk \in Pks : SetPrimaryGet("r1", u, pk)

FrameClear == SetPrimaryClear("r1")

FrameFileSize == SaveFileSize("r1")

FrameUpdate == SaveUpdate("r1", "none")

FrameInsert == SaveInsert("r1")

FrameDestroy == \E pk \in Pks : DestroyGet("r2", "u1", pk)

FrameLog == DestroyLog("r2", "none")

FrameSelect == DestroySelect("r2")

FrameFile == DestroyFile("r2", "none")

FrameRow == DestroyRow("r2", "none")

NextFrame ==
    \/ FrameCreate
    \/ FrameSetPrimary
    \/ FrameClear
    \/ FrameFileSize
    \/ FrameUpdate
    \/ FrameInsert
    \/ FrameDestroy
    \/ FrameLog
    \/ FrameSelect
    \/ FrameFile
    \/ FrameRow

SpecFrame == Init /\ [][NextFrame]_vars

\* C20: the statements of a set_primary request on row f by owner u that is
\* answered 200 change nothing but is_primary flags of rows of f's listing
\* type, f's listing id and owner u: no row appears or disappears, every
\* row of another listing or another owner is unchanged, no other column of
\* any row changes, and the storage and the log are unchanged.
C20_SetPrimaryFrame ==
    [][(/\ req["r1"].op = "set_primary"
        /\ req'["r1"] # req["r1"]
        /\ req'["r1"].op = "idle" => resp'.status = 200)
       => LET k == <<req["r1"].inst.listing_type, req["r1"].inst.listing_id,
                     req["r1"].user>>
          IN  /\ DOMAIN files' = DOMAIN files
              /\ \A i \in DOMAIN files \cap DOMAIN files' :
                    /\ Key(files[i]) # k => files'[i] = files[i]
                    /\ [files'[i] EXCEPT !.is_primary = files[i].is_primary] = files[i]
              /\ blobs' = blobs
              /\ log' = log
    ]_vars

====
